---- MODULE Spec2Model ----
(***************************************************************************)
(* Prot'n'Hub (src/kartik.py): interaction records -> directed graph ->    *)
(* hub ranking -> scene.  Python values are modelled as follows:           *)
(*   - a name is a string; Python None is the model value NONE;            *)
(*   - a score is a record: absent (None), a JSON number, or a JSON string *)
(*     (a sequence of one-character strings);                              *)
(*   - numbers are integers in thousandths (STRING scores 0..1000);        *)
(*   - a networkx DiGraph is its node list (insertion order), its          *)
(*     successor and predecessor lists (insertion order) and its weights.  *)
(***************************************************************************)
EXTENDS Integers, Sequences, FiniteSets, TLC

VARIABLES data, pc, exc, G, top_n, hub_genes, degree_dict, pos, fig,
          user_input, identifiers_list, calls

vars == <<data, pc, exc, G, top_n, hub_genes, degree_dict, pos, fig,
          user_input, identifiers_list, calls>>

(***************************************************************************)
(* Bounds of the model                                                     *)
(***************************************************************************)
\* longest record batch given to build_network alone
MaxBuildLen == 3
\* longest record batch run through the whole pipeline
MaxPipeLen == 3
\* largest top_n asked of find_hub_genes
MaxTopN == 3

(***************************************************************************)
(* Python values                                                           *)
(***************************************************************************)
NONE == "None"

\* truthiness of a name field: None and the empty string are falsy
Truthy(x) == x # NONE /\ x # ""

NoScore == [k |-> "none", n |-> 0, s |-> <<>>]
Num(n) == [k |-> "num", n |-> n, s |-> <<>>]
Str(s) == [k |-> "str", n |-> 0, s |-> s]

\* a dict record of the batch; a missing key reads as None through .get
Rec(a, b, score) == [isdict |-> TRUE, a |-> a, b |-> b, score |-> score]
\* a batch item that is no dict (a JSON string, number or list)
NotADict == [isdict |-> FALSE, a |-> NONE, b |-> NONE, score |-> NoScore]

\* the value handed to build_network: None, a list, or a JSON object
NoneData == [t |-> "None", v |-> <<>>, keys |-> 0]
ListData(s) == [t |-> "list", v |-> s, keys |-> 0]
DictData(nkeys) == [t |-> "dict", v |-> <<>>, keys |-> nkeys]

\* a mutant of TruthyData: only None is falsy
TruthyData_not_none(d) == d.t # "None"

\* Python truthiness of that value (`not data`)
TruthyData(d) ==
    CASE d.t = "None" -> FALSE
      [] d.t = "list" -> Len(d.v) > 0
      [] OTHER -> d.keys > 0

DigitVal == [c \in {"0", "5", "7"} |-> CASE c = "0" -> 0 [] c = "5" -> 5 [] OTHER -> 7]

RECURSIVE ParseDigits(_)
ParseDigits(s) ==
    IF s = <<>> THEN 0
    ELSE ParseDigits(SubSeq(s, 1, Len(s) - 1)) * 10 + DigitVal[s[Len(s)]]

\* float(score) succeeds: a number, or a non-empty string of digits
Convertible(score) ==
    \/ score.k = "num"
    \/ /\ score.k = "str"
       /\ Len(score.s) > 0
       /\ \A j \in 1..Len(score.s) : score.s[j] \in DOMAIN DigitVal

\* float(score), where it succeeds
float(score) == IF score.k = "num" THEN score.n ELSE ParseDigits(score.s)

(***************************************************************************)
(* networkx.DiGraph                                                        *)
(***************************************************************************)
Range(s) == {s[j] : j \in 1..Len(s)}

EmptyFcn == [x \in {} |-> <<>>]

\* nx.DiGraph()
DiGraph == [node |-> <<>>, succ |-> EmptyFcn, pred |-> EmptyFcn, weight |-> EmptyFcn]

\* the node creation inside add_edge: `if u not in self._succ`
add_node(g, n) ==
    IF n \in DOMAIN g.succ THEN g
    ELSE [g EXCEPT !.node = Append(@, n),
                   !.succ = @ @@ (n :> <<>>),
                   !.pred = @ @@ (n :> <<>>)]

\* a dict insert: a key already present keeps its position
DictPut(keys, x) == IF x \in Range(keys) THEN keys ELSE Append(keys, x)

\* a mutant of add_edge: an edge already stored keeps its first weight
add_edge_first_wins(g, u, v, w) ==
    LET g2 == add_node(add_node(g, u), v)
    IN  [node |-> g2.node,
         succ |-> [g2.succ EXCEPT ![u] = DictPut(@, v)],
         pred |-> [g2.pred EXCEPT ![v] = DictPut(@, u)],
         weight |-> g2.weight @@ (<<u, v>> :> w)]

\* G.add_edge(u, v, weight=w)
add_edge(g, u, v, w) ==
    LET g2 == add_node(add_node(g, u), v)
    IN  [node |-> g2.node,
         succ |-> [g2.succ EXCEPT ![u] = DictPut(@, v)],
         pred |-> [g2.pred EXCEPT ![v] = DictPut(@, u)],
         weight |-> (<<u, v>> :> w) @@ g2.weight]

\* G.edges(): by source in node order, then by successor in insertion order
RECURSIVE edges_from(_, _)
edges_from(g, k) ==
    IF k > Len(g.node) THEN <<>>
    ELSE LET u == g.node[k]
         IN  [j \in 1..Len(g.succ[u]) |-> <<u, g.succ[u][j]>>] \o edges_from(g, k + 1)

edges(g) == edges_from(g, 1)

number_of_nodes(g) == Len(g.node)
number_of_edges(g) == Len(edges(g))

RECURSIVE weight_sum(_, _)
weight_sum(g, es) ==
    IF es = <<>> THEN 0 ELSE g.weight[es[1]] + weight_sum(g, Tail(es))

\* a mutant of degree: the weighted degree, G.degree(weight='weight')
degree_weighted(g) ==
    [n \in Range(g.node) |->
        weight_sum(g, [j \in 1..Len(g.succ[n]) |-> <<n, g.succ[n][j]>>])
        + weight_sum(g, [j \in 1..Len(g.pred[n]) |-> <<g.pred[n][j], n>>])]

\* a mutant of degree: the out-degree only
degree_out_only(g) == [n \in Range(g.node) |-> Len(g.succ[n])]

\* G.degree(): in-degree plus out-degree, per node
degree(g) == [n \in Range(g.node) |-> Len(g.succ[n]) + Len(g.pred[n])]

(***************************************************************************)
(* build_network                                                           *)
(***************************************************************************)
\* a mutant of the record test: a score of 0 is taken for a missing score
interaction_ok_truthy_score(r) ==
    Truthy(r.a) /\ Truthy(r.b) /\ r.score.k # "none"
    /\ ~(r.score.k = "num" /\ r.score.n = 0)

\* `if p1 and p2 and score is not None`
interaction_ok(r) == Truthy(r.a) /\ Truthy(r.b) /\ r.score.k # "none"

\* the loop over the batch, from item k on; status is "ok" or the exception raised
RECURSIVE build_loop(_, _, _)
build_loop(g, items, k) ==
    IF k > Len(items) THEN [status |-> "ok", G |-> g]
    ELSE LET interaction == items[k]
         IN  IF ~interaction.isdict
             THEN [status |-> "AttributeError", G |-> g]
             ELSE IF interaction_ok(interaction)
                  THEN IF Convertible(interaction.score)
                       THEN build_loop(add_edge(g, interaction.a, interaction.b,
                                                float(interaction.score)),
                                       items, k + 1)
                       ELSE [status |-> "ValueError", G |-> g]
                  ELSE build_loop(g, items, k + 1)

build_network(d) ==
    IF ~TruthyData(d) \/ d.t # "list"
    THEN [status |-> "ok", G |-> DiGraph]
    ELSE build_loop(DiGraph, d.v, 1)

(***************************************************************************)
(* find_hub_genes                                                          *)
(***************************************************************************)
\* dict(G.degree()).items(): (node, degree) pairs in node order
degree_items(g) == [k \in 1..Len(g.node) |-> <<g.node[k], degree(g)[g.node[k]]>>]

\* a mutant of insert_desc: equal degrees end up in reverse insertion order
insert_desc_before_equal(s, x) ==
    LET p == Cardinality({j \in 1..Len(s) : s[j][2] > x[2]})
    IN  SubSeq(s, 1, p) \o <<x>> \o SubSeq(s, p + 1, Len(s))

\* one insertion of the stable descending sort: x goes behind every item
\* whose degree is at least its own
insert_desc(s, x) ==
    LET p == Cardinality({j \in 1..Len(s) : s[j][2] >= x[2]})
    IN  SubSeq(s, 1, p) \o <<x>> \o SubSeq(s, p + 1, Len(s))

\* sorted(items, key=degree, reverse=True): stable, items taken left to right
RECURSIVE sorted_reverse(_)
sorted_reverse(items) ==
    IF items = <<>> THEN <<>>
    ELSE insert_desc(sorted_reverse(SubSeq(items, 1, Len(items) - 1)),
                     items[Len(items)])

Min(a, b) == IF a <= b THEN a ELSE b

\* s[:n] for n >= 0
Slice(s, n) == SubSeq(s, 1, Min(n, Len(s)))

find_hub_genes(g, n) ==
    IF number_of_nodes(g) = 0 THEN <<>>
    ELSE LET sorted_genes == sorted_reverse(degree_items(g))
             top == Slice(sorted_genes, n)
         IN  [k \in 1..Len(top) |-> top[k][1]]

(***************************************************************************)
(* create_graph_figure                                                     *)
(***************************************************************************)
\* the None that separates two segments in edge_x and edge_y; a coordinate
\* x is the one-element sequence <<x>>
NoCoord == <<>>

\* the placement of the k-th node: distinct nodes get distinct placeholders
\* (the seed is fixed, so the placement is a function of the graph)
Placement(k) == <<10 * k, 10 * k + 5>>

\* nx.spring_layout(G, seed=42, ...): networkx places every node; the model
\* also admits results that leave nodes out, the case the guards of
\* create_graph_figure defend against
spring_layout(g) ==
    {[n \in D |-> Placement(CHOOSE k \in 1..Len(g.node) : g.node[k] = n)] :
        D \in SUBSET Range(g.node)}

NoFigure == [status |-> "none", edge_x |-> <<>>, edge_y |-> <<>>, node |-> <<>>]

\* a mutant of the edge loop: only the source is looked up before indexing
RECURSIVE edge_trace_src_only(_, _, _)
edge_trace_src_only(es, p, k) ==
    IF k > Len(es) THEN [status |-> "ok", x |-> <<>>, y |-> <<>>]
    ELSE LET src == es[k][1]
             dst == es[k][2]
             rest == edge_trace_src_only(es, p, k + 1)
         IN  IF src \in DOMAIN p
             THEN IF dst \notin DOMAIN p
                  THEN [status |-> "KeyError", x |-> <<>>, y |-> <<>>]
                  ELSE [status |-> rest.status,
                        x |-> <<<<p[src][1]>>, <<p[dst][1]>>, NoCoord>> \o rest.x,
                        y |-> <<<<p[src][2]>>, <<p[dst][2]>>, NoCoord>> \o rest.y]
             ELSE rest

\* the loop over G.edges() that fills edge_x and edge_y, from edge k on
RECURSIVE edge_trace(_, _, _)
edge_trace(es, p, k) ==
    IF k > Len(es) THEN [status |-> "ok", x |-> <<>>, y |-> <<>>]
    ELSE LET src == es[k][1]
             dst == es[k][2]
             rest == edge_trace(es, p, k + 1)
         IN  IF src \in DOMAIN p /\ dst \in DOMAIN p
             THEN [status |-> rest.status,
                   x |-> <<<<p[src][1]>>, <<p[dst][1]>>, NoCoord>> \o rest.x,
                   y |-> <<<<p[src][2]>>, <<p[dst][2]>>, NoCoord>> \o rest.y]
             ELSE rest

\* a mutant of node_glyph: the label threshold is off by one
node_glyph_label_from_2(node, p, degrees, hubs) ==
    LET d == IF node \in DOMAIN degrees THEN degrees[node] ELSE 0
    IN  [node |-> node, x |-> p[node][1], y |-> p[node][2],
         size2 |-> Min(100, 20 + d * 3),
         color |-> IF node \in Range(hubs) THEN "crimson" ELSE "cornflowerblue",
         text |-> IF d >= 2 \/ node \in Range(hubs) THEN node ELSE "",
         hover |-> <<node, d>>]

\* the glyph of one node; size2 is twice the marker size min(50, 10 + 1.5 d)
node_glyph(node, p, degrees, hubs) ==
    LET d == IF node \in DOMAIN degrees THEN degrees[node] ELSE 0
    IN  [node |-> node, x |-> p[node][1], y |-> p[node][2],
         size2 |-> Min(100, 20 + d * 3),
         color |-> IF node \in Range(hubs) THEN "crimson" ELSE "cornflowerblue",
         text |-> IF d > 2 \/ node \in Range(hubs) THEN node ELSE "",
         hover |-> <<node, d>>]

\* the loop over G.nodes() that fills the node lists, from node k on
RECURSIVE node_trace(_, _, _, _, _)
node_trace(nodes, p, degrees, hubs, k) ==
    IF k > Len(nodes) THEN <<>>
    ELSE IF nodes[k] \in DOMAIN p
         THEN <<node_glyph(nodes[k], p, degrees, hubs)>>
              \o node_trace(nodes, p, degrees, hubs, k + 1)
         ELSE node_trace(nodes, p, degrees, hubs, k + 1)

\* the figure for layout p (p is {} for a graph without nodes)
create_graph_figure(g, hubs, p) ==
    LET degrees == degree(g)
        et == edge_trace(edges(g), p, 1)
    IN  IF et.status # "ok"
        THEN [status |-> et.status, edge_x |-> <<>>, edge_y |-> <<>>, node |-> <<>>]
        ELSE [status |-> "ok", edge_x |-> et.x, edge_y |-> et.y,
              node |-> node_trace(g.node, p, degrees, hubs, 1)]

(***************************************************************************)
(* Inputs                                                                  *)
(***************************************************************************)
SeqsUpTo(S, n) == UNION {[1..m -> S] : m \in 0..n}

BuildNames == {"A", "B"}

\* records with both names and a convertible score
BuildGood ==
    {Rec(a, b, sc) : a \in BuildNames, b \in BuildNames, sc \in {Num(0), Num(5)}}
    \cup {Rec("A", "B", Str(<<"7">>)), Rec("B", "A", Str(<<"5", "0">>))}

\* records lacking a field, with a score that float rejects, or no dict at all
BuildBad ==
    {Rec(NONE, "B", Num(5)), Rec("", "B", Num(5)), Rec("A", NONE, Num(5)),
     Rec("A", "", Num(5)), Rec("A", "B", NoScore),
     Rec("A", "B", Str(<<"x">>)), Rec("B", "A", Str(<<>>)), NotADict}

BuildInputs ==
    {NoneData, DictData(0), DictData(1)}
    \cup {ListData(s) : s \in SeqsUpTo(BuildGood \cup BuildBad, MaxBuildLen)}

(***************************************************************************)
(* State machine: one call of build_network                                *)
(***************************************************************************)
Idle ==
    /\ exc = "none" /\ G = DiGraph /\ top_n = 0 /\ hub_genes = <<>>
    /\ degree_dict = EmptyFcn /\ pos = EmptyFcn
    /\ fig = NoFigure
    /\ user_input = <<>> /\ identifiers_list = <<>> /\ calls = <<>>

InitBuild == data \in BuildInputs /\ pc = "call_build" /\ Idle

\* G = build_network(data); an exception leaves the caller without a graph
CallBuildNetwork ==
    /\ pc = "call_build"
    /\ LET r == build_network(data)
       IN  IF r.status = "ok"
           THEN G' = r.G /\ exc' = exc /\ pc' = "built"
           ELSE G' = G /\ exc' = r.status /\ pc' = "raised"
    /\ UNCHANGED <<data, top_n, hub_genes, degree_dict, pos, fig,
                   user_input, identifiers_list, calls>>

NextBuild == CallBuildNetwork

SpecBuild == InitBuild /\ [][NextBuild]_vars

(***************************************************************************)
(* State machine: build_network, find_hub_genes, create_graph_figure in    *)
(* turn, as lines 233, 240 and 243 call them                               *)
(***************************************************************************)
PipeNames == {"A", "B", "C"}

PipeGood == {Rec(a, b, Num(5)) : a \in PipeNames, b \in PipeNames}

PipeBad == {Rec("A", "B", NoScore), Rec("A", "B", Str(<<"x">>))}

PipeInputs ==
    {NoneData, DictData(1)}
    \cup {ListData(s) : s \in SeqsUpTo(PipeGood \cup PipeBad, MaxPipeLen)}

InitPipe == data \in PipeInputs /\ pc = "call_build" /\ Idle

\* hub_genes = find_hub_genes(G, n)
CallFindHubGenes ==
    /\ pc = "built"
    /\ \E n \in 0..MaxTopN :
          /\ top_n' = n
          /\ hub_genes' = find_hub_genes(G, n)
    /\ degree_dict' = IF number_of_nodes(G) = 0 THEN degree_dict ELSE degree(G)
    /\ pc' = "ranked"
    /\ UNCHANGED <<data, exc, G, pos, fig, user_input, identifiers_list, calls>>

\* fig = create_graph_figure(G, hub_genes)
CallCreateGraphFigure ==
    /\ pc = "ranked"
    /\ IF number_of_nodes(G) = 0
       THEN pos' = EmptyFcn /\ calls' = calls
       ELSE pos' \in spring_layout(G) /\ calls' = Append(calls, "spring_layout")
    /\ fig' = create_graph_figure(G, hub_genes, pos')
    /\ pc' = "drawn"
    /\ UNCHANGED <<data, exc, G, top_n, hub_genes, degree_dict,
                   user_input, identifiers_list>>

NextPipe == CallBuildNetwork \/ CallFindHubGenes \/ CallCreateGraphFigure

SpecPipe == InitPipe /\ [][NextPipe]_vars

(***************************************************************************)
(* The Analyze button handler (lines 209-285)                              *)
(***************************************************************************)
\* longest text typed into the input box
MaxInputLen == 2
\* longest record batch the fetch answers with
MaxFlowLen == 2

\* top_n=5, the default the handler relies on
DefaultTopN == 5

IsSpace(c) == c \in {" ", "\n"}

\* str.strip()
RECURSIVE lstrip(_)
lstrip(s) == IF s # <<>> /\ IsSpace(s[1]) THEN lstrip(Tail(s)) ELSE s

RECURSIVE rstrip(_)
rstrip(s) ==
    IF s # <<>> /\ IsSpace(s[Len(s)]) THEN rstrip(SubSeq(s, 1, Len(s) - 1)) ELSE s

strip(s) == rstrip(lstrip(s))

FirstIndex(s, c) == CHOOSE j \in 1..Len(s) : s[j] = c /\ \A m \in 1..(j - 1) : s[m] # c

\* str.split(sep): at least one piece
RECURSIVE split(_, _)
split(s, sep) ==
    IF sep \notin Range(s) THEN <<s>>
    ELSE LET j == FirstIndex(s, sep)
         IN  <<SubSeq(s, 1, j - 1)>> \o split(SubSeq(s, j + 1, Len(s)), sep)

\* str.splitlines(): no piece for the empty string or after a final newline
RECURSIVE splitlines(_)
splitlines(s) ==
    IF s = <<>> THEN <<>>
    ELSE IF "\n" \notin Range(s) THEN <<s>>
    ELSE LET j == FirstIndex(s, "\n")
         IN  <<SubSeq(s, 1, j - 1)>> \o splitlines(SubSeq(s, j + 1, Len(s)))

\* [ident.strip() for ident in lines if ident.strip()]
RECURSIVE stripped_nonempty(_)
stripped_nonempty(lines) ==
    IF lines = <<>> THEN <<>>
    ELSE (IF strip(lines[1]) # <<>> THEN <<strip(lines[1])>> ELSE <<>>)
         \o stripped_nonempty(Tail(lines))

\* the comprehension of lines 216-217 over the comma-separated groups
RECURSIVE identifiers_of(_)
identifiers_of(groups) ==
    IF groups = <<>> THEN <<>>
    ELSE stripped_nonempty(splitlines(groups[1])) \o identifiers_of(Tail(groups))

InputChars == {"p", ",", " ", "\n"}

FlowRecords ==
    {Rec("A", "B", Num(5)), Rec("B", "A", Num(5)), Rec("A", "B", NoScore),
     Rec("A", "B", Str(<<"x">>))}

\* what get_string_interactions may return: None after an error, else the
\* decoded JSON body, a list of records or some other JSON value
FlowResponses ==
    {NoneData, DictData(0), DictData(1)}
    \cup {ListData(s) : s \in SeqsUpTo(FlowRecords, MaxFlowLen)}

InitFlow ==
    /\ data = NoneData /\ pc = "button"
    /\ exc = "none" /\ G = DiGraph /\ top_n = 0 /\ hub_genes = <<>>
    /\ degree_dict = EmptyFcn /\ pos = EmptyFcn /\ fig = NoFigure
    /\ user_input \in SeqsUpTo(InputChars, MaxInputLen)
    /\ identifiers_list = <<>> /\ calls = <<>>

\* lines 211-220: the input is cleaned and split, the handler stops on no identifier
Analyze ==
    /\ pc = "button"
    /\ LET raw_input == strip(user_input)
           ids == identifiers_of(split(raw_input, ","))
       IN  IF raw_input = <<>>
           THEN /\ calls' = Append(calls, "st.warning: no input")
                /\ identifiers_list' = identifiers_list
                /\ pc' = "stopped"
           ELSE /\ identifiers_list' = ids
                /\ IF ids = <<>>
                   THEN calls' = Append(calls, "st.warning: no identifiers")
                        /\ pc' = "stopped"
                   ELSE calls' = calls /\ pc' = "fetch"
    /\ UNCHANGED <<data, exc, G, top_n, hub_genes, degree_dict, pos, fig, user_input>>

\* line 223: string_data = get_string_interactions(...)
GetStringInteractions ==
    /\ pc = "fetch"
    /\ \E response \in FlowResponses :
          /\ data' = response
          /\ calls' = IF response = NoneData
                      THEN calls \o <<"get_string_interactions", "st.error">>
                      ELSE Append(calls, "get_string_interactions")
    /\ pc' = "fetched"
    /\ UNCHANGED <<exc, G, top_n, hub_genes, degree_dict, pos, fig,
                   user_input, identifiers_list>>

\* lines 225-231
CheckStringData ==
    /\ pc = "fetched"
    /\ IF data.t = "None"
       THEN calls' = calls /\ pc' = "stopped"
       ELSE IF ~TruthyData(data)
            THEN calls' = Append(calls, "st.info: no interaction data")
                 /\ pc' = "stopped"
            ELSE calls' = calls /\ pc' = "build"
    /\ UNCHANGED <<data, exc, G, top_n, hub_genes, degree_dict, pos, fig,
                   user_input, identifiers_list>>

\* lines 233-238; an exception of build_network ends the handler
BuildStep ==
    /\ pc = "build"
    /\ LET r == build_network(data)
       IN  IF r.status # "ok"
           THEN /\ G' = G /\ exc' = r.status /\ pc' = "raised"
                /\ calls' = Append(calls, "build_network")
           ELSE /\ G' = r.G /\ exc' = exc
                /\ IF number_of_nodes(r.G) = 0
                   THEN calls' = calls \o <<"build_network", "st.warning: no network">>
                        /\ pc' = "stopped"
                   ELSE calls' = Append(calls, "build_network") /\ pc' = "rank"
    /\ UNCHANGED <<data, top_n, hub_genes, degree_dict, pos, fig,
                   user_input, identifiers_list>>

\* line 240
RankStep ==
    /\ pc = "rank"
    /\ top_n' = DefaultTopN
    /\ hub_genes' = find_hub_genes(G, DefaultTopN)
    /\ calls' = Append(calls, "find_hub_genes")
    /\ pc' = "figure"
    /\ UNCHANGED <<data, exc, G, degree_dict, pos, fig, user_input, identifiers_list>>

\* lines 242-244
FigureStep ==
    /\ pc = "figure"
    /\ IF number_of_nodes(G) = 0
       THEN pos' = EmptyFcn
            /\ calls' = calls \o <<"create_graph_figure", "st.plotly_chart">>
       ELSE pos' \in spring_layout(G)
            /\ calls' = calls \o <<"create_graph_figure", "spring_layout",
                                   "st.plotly_chart">>
    /\ fig' = create_graph_figure(G, hub_genes, pos')
    /\ pc' = "png"
    /\ UNCHANGED <<data, exc, G, top_n, hub_genes, degree_dict,
                   user_input, identifiers_list>>

\* lines 246-258: the image export succeeds or its exception is reported
PngStep ==
    /\ pc = "png"
    /\ \E written \in BOOLEAN :
          calls' = Append(calls, IF written THEN "st.download_button"
                                 ELSE "st.error: png")
    /\ pc' = "results"
    /\ UNCHANGED <<data, exc, G, top_n, hub_genes, degree_dict, pos, fig,
                   user_input, identifiers_list>>

\* lines 260-285
ResultsStep ==
    /\ pc = "results"
    /\ degree_dict' = degree(G)
    /\ calls' = calls
                \o <<IF hub_genes # <<>> THEN "st.success: top hub genes"
                     ELSE "st.info: no distinct hub genes">>
                \o <<IF degree(G) # EmptyFcn THEN "st.info: primary hub gene"
                     ELSE "st.info: no nodes">>
    /\ pc' = "done"
    /\ UNCHANGED <<data, exc, G, top_n, hub_genes, pos, fig,
                   user_input, identifiers_list>>

NextFlow ==
    \/ Analyze \/ GetStringInteractions \/ CheckStringData \/ BuildStep
    \/ RankStep \/ FigureStep \/ PngStep \/ ResultsStep

SpecFlow == InitFlow /\ [][NextFlow]_vars

(***************************************************************************)
(* Properties of build_network                                             *)
(***************************************************************************)
HasName(x) == x # NONE /\ x # ""

\* a record with a source name, a target name and a score float accepts
WellFormed(r) ==
    r.isdict /\ HasName(r.a) /\ HasName(r.b) /\ r.score.k # "none"
    /\ Convertible(r.score)

\* the records of the batch that are not discarded, in batch order
Surviving(d) == IF d.t = "list" THEN SelectSeq(d.v, WellFormed) ELSE <<>>

Identifiers(recs) == {recs[j].a : j \in 1..Len(recs)} \cup {recs[j].b : j \in 1..Len(recs)}

Pairs(recs) == {<<recs[j].a, recs[j].b>> : j \in 1..Len(recs)}

\* the last record of recs for the ordered pair e
LastFor(recs, e) ==
    recs[CHOOSE j \in 1..Len(recs) :
            /\ <<recs[j].a, recs[j].b>> = e
            /\ \A m \in (j + 1)..Len(recs) : <<recs[m].a, recs[m].b>> # e]

EdgeSet(g) == Range(edges(g))

\* C1: in the graph build_network returns, the endpoints of every edge are
\* nodes, no node is stored twice, and the nodes are exactly the identifiers
\* that occur as source or target of a surviving record
C1_NodesAreEndpoints ==
    pc = "built" =>
        /\ \A e \in EdgeSet(G) : e[1] \in Range(G.node) /\ e[2] \in Range(G.node)
        /\ Cardinality(Range(G.node)) = Len(G.node)
        /\ Range(G.node) = Identifiers(Surviving(data))
        /\ number_of_nodes(G) = Cardinality(Identifiers(Surviving(data)))

\* a built graph where a record was discarded, one was applied and an
\* endpoint already present came again
C1_Witness ==
    /\ pc = "built" /\ data.t = "list"
    /\ Len(Surviving(data)) >= 2
    /\ Len(data.v) > Len(Surviving(data))
    /\ number_of_nodes(G) = 2
    /\ number_of_edges(G) = 2

\* C2: the graph build_network returns holds one edge per distinct ordered
\* pair of the surviving records (so A->B and B->A are two edges), no edge
\* twice, each with the weight of the last surviving record of its pair
C2_OneEdgePerOrderedPair ==
    pc = "built" =>
        LET surv == Surviving(data)
        IN  /\ Cardinality(EdgeSet(G)) = Len(edges(G))
            /\ EdgeSet(G) = Pairs(surv)
            /\ number_of_edges(G) = Cardinality(Pairs(surv))
            /\ DOMAIN G.weight = Pairs(surv)
            /\ \A e \in Pairs(surv) : G.weight[e] = float(LastFor(surv, e).score)

\* a built graph where A->B was added twice with different weights and B->A
\* occurs too
C2_Witness ==
    /\ pc = "built"
    /\ LET surv == Surviving(data)
       IN  /\ \E j, m \in 1..Len(surv) :
                 /\ j < m
                 /\ surv[j].a = "A" /\ surv[j].b = "B"
                 /\ surv[m].a = "A" /\ surv[m].b = "B"
                 /\ float(surv[j].score) # float(surv[m].score)
           /\ <<"B", "A">> \in Pairs(surv)
    /\ number_of_edges(G) = 2

RECURSIVE ApplyAll(_, _)
ApplyAll(g, recs) ==
    IF recs = <<>> THEN g
    ELSE ApplyAll(add_edge(g, recs[1].a, recs[1].b, float(recs[1].score)), Tail(recs))

\* C3: on a batch of records (dicts), build_network never aborts, and the
\* graph it returns is the one the well-formed records of the batch give when
\* applied in order, every other record being skipped
C3_MalformedDiscarded ==
    (pc # "call_build" /\ \A j \in 1..Len(data.v) : data.v[j].isdict) =>
        /\ pc = "built"
        /\ G = ApplyAll(DiGraph, Surviving(data))

(***************************************************************************)
(* Properties of the pipeline                                              *)
(***************************************************************************)
\* no record of the input is usable: None, no list, an empty list, or a list
\* of malformed records only
NothingUsable(d) == d.t # "list" \/ \A j \in 1..Len(d.v) : ~WellFormed(d.v[j])

\* C4: on an input without a usable record no stage fails: the graph has no
\* node and no edge, the ranking is empty, the layout is empty without
\* spring_layout being run, and the figure has no glyph and no segment
C4_EmptyInputNeverFails ==
    (NothingUsable(data) /\ pc # "call_build") =>
        /\ pc # "raised"
        /\ number_of_nodes(G) = 0 /\ number_of_edges(G) = 0
        /\ hub_genes = <<>>
        /\ pc = "drawn" =>
              /\ pos = EmptyFcn
              /\ "spring_layout" \notin Range(calls)
              /\ fig.status = "ok"
              /\ fig.node = <<>> /\ fig.edge_x = <<>> /\ fig.edge_y = <<>>

Index(g, n) == CHOOSE k \in 1..Len(g.node) : g.node[k] = n

ExampleTriangle ==
    ListData(<<Rec("A", "B", Num(5)), Rec("B", "C", Num(5)), Rec("A", "C", Num(5))>>)

ExampleSingle == ListData(<<Rec("A", "B", Num(5))>>)

\* C5: find_hub_genes returns min(top_n, number of nodes) distinct nodes, by
\* degree descending, equal degrees in node-insertion order, and no node left
\* out would sort before a node returned; the triangle with top_n = 2 gives
\* [A, B] and a single record gives its two names in order
C5_RankingOrder ==
    pc \in {"ranked", "drawn"} =>
        LET d == degree(G)
            h == hub_genes
            left == Range(G.node) \ Range(h)
        IN  /\ Len(h) = Min(top_n, number_of_nodes(G))
            /\ Range(h) \subseteq Range(G.node)
            /\ Cardinality(Range(h)) = Len(h)
            /\ \A j, k \in 1..Len(h) :
                  j < k => \/ d[h[j]] > d[h[k]]
                           \/ d[h[j]] = d[h[k]] /\ Index(G, h[j]) < Index(G, h[k])
            /\ \A j \in 1..Len(h) : \A x \in left :
                  \/ d[h[j]] > d[x]
                  \/ d[h[j]] = d[x] /\ Index(G, h[j]) < Index(G, x)
            /\ (data = ExampleTriangle /\ top_n = 2) => h = <<"A", "B">>
            /\ (data = ExampleSingle /\ top_n >= 2) => h = <<"A", "B">>

\* the triangle example ranked with top_n = 2: three nodes of degree 2
C5_Witness ==
    /\ pc = "ranked" /\ data = ExampleTriangle /\ top_n = 2
    /\ number_of_nodes(G) = 3 /\ number_of_edges(G) = 3
    /\ \A n \in Range(G.node) : degree_dict[n] = 2
    /\ hub_genes = <<"A", "B">>

Touching(g, n) == {e \in EdgeSet(g) : e[1] = n \/ e[2] = n}
AsSource(g, n) == {e \in EdgeSet(g) : e[1] = n}
AsTarget(g, n) == {e \in EdgeSet(g) : e[2] = n}

\* the degrees find_hub_genes ranked by and the degrees the glyphs carry are
\* those of expected, a function on the nodes
DegreesUsedAre(expected) ==
    /\ (pc \in {"ranked", "drawn"} /\ number_of_nodes(G) > 0) =>
          \A n \in Range(G.node) : degree_dict[n] = expected[n]
    /\ pc = "drawn" =>
          \A k \in 1..Len(fig.node) : fig.node[k].hover[2] = expected[fig.node[k].node]

HasBoth(e) == e[1] \in DOMAIN pos /\ e[2] \in DOMAIN pos
HasPos(n) == n \in DOMAIN pos

\* C7: the figure is produced without failure; its segments are those of the
\* stored edges whose two endpoints have a coordinate, in edge order, drawn
\* between these coordinates; its glyphs are those of the nodes that have a
\* coordinate, in node order, at these coordinates
C7_OnlyPlacedNodesDrawn ==
    pc = "drawn" =>
        LET shown == SelectSeq(edges(G), HasBoth)
            placed == SelectSeq(G.node, HasPos)
        IN  /\ fig.status = "ok"
            /\ Len(fig.edge_x) = 3 * Len(shown)
            /\ Len(fig.edge_y) = 3 * Len(shown)
            /\ \A k \in 1..Len(shown) :
                  /\ fig.edge_x[3 * k - 2] = <<pos[shown[k][1]][1]>>
                  /\ fig.edge_y[3 * k - 2] = <<pos[shown[k][1]][2]>>
                  /\ fig.edge_x[3 * k - 1] = <<pos[shown[k][2]][1]>>
                  /\ fig.edge_y[3 * k - 1] = <<pos[shown[k][2]][2]>>
                  /\ fig.edge_x[3 * k] = NoCoord
                  /\ fig.edge_y[3 * k] = NoCoord
            /\ Len(fig.node) = Len(placed)
            /\ \A k \in 1..Len(placed) :
                  /\ fig.node[k].node = placed[k]
                  /\ fig.node[k].x = pos[placed[k]][1]
                  /\ fig.node[k].y = pos[placed[k]][2]

\* a figure over a partial layout: one edge drawn, one edge and one node left out
C7_Witness ==
    /\ pc = "drawn"
    /\ Len(fig.edge_x) = 3
    /\ number_of_edges(G) = 2
    /\ Len(fig.node) = 2
    /\ number_of_nodes(G) = 3
    /\ \E e \in EdgeSet(G) : e[1] \in DOMAIN pos /\ e[2] \notin DOMAIN pos

\* C8: a glyph is crimson exactly when its node is in hub_genes and
\* cornflowerblue otherwise; its label is empty exactly when the node's degree
\* is at most 2 and the node is no hub, and is the node's name otherwise
C8_ColourAndLabel ==
    pc = "drawn" =>
        \A k \in 1..Len(fig.node) :
            LET g == fig.node[k]
                hub == g.node \in Range(hub_genes)
                low == degree(G)[g.node] <= 2
            IN  /\ g.color = IF hub THEN "crimson" ELSE "cornflowerblue"
                /\ g.text = "" <=> (low /\ ~hub)
                /\ g.text # "" => g.text = g.node
                /\ hub => g.text = g.node

\* a figure with a labelled hub of degree 2 and an unlabelled node of degree 2
\* that is no hub
C8_Witness ==
    /\ pc = "drawn"
    /\ \E j, k \in 1..Len(fig.node) :
          /\ fig.node[j].hover[2] = 2 /\ fig.node[j].color = "crimson"
          /\ fig.node[j].text = fig.node[j].node
          /\ fig.node[k].hover[2] = 2 /\ fig.node[k].color = "cornflowerblue"
          /\ fig.node[k].text = ""

ShowsHubs == "st.success: top hub genes"
ShowsNoHubs == "st.info: no distinct hub genes"

StepOrder ==
    <<"get_string_interactions", "build_network", "find_hub_genes",
      "create_graph_figure", "results">>

StepOf(c) == IF c \in {ShowsHubs, ShowsNoHubs} THEN "results" ELSE c

IsStep(c) == StepOf(c) \in Range(StepOrder)

Called(c) == c \in Range(calls)

\* C10: the handler's steps happen in the order fetch, build_network,
\* find_hub_genes, create_graph_figure, results, each at most once; nothing
\* follows a failed fetch or an empty batch, and nothing follows a graph
\* without nodes; so ranking and figure see a graph with a node, the hub list
\* is not empty and the 'no distinct hub genes' message is never shown
C10_FlowOrderAndStops ==
    LET steps == SelectSeq(calls, IsStep)
        fetched == Called("get_string_interactions")
        emptyBatch == data.t # "None" /\ Len(data.v) = 0 /\ data.keys = 0
    IN  /\ Len(steps) <= Len(StepOrder)
        /\ \A k \in 1..Len(steps) : StepOf(steps[k]) = StepOrder[k]
        /\ (fetched /\ (data.t = "None" \/ emptyBatch)) =>
              /\ ~Called("build_network")
              /\ pc \in {"fetched", "stopped"}
        /\ (Called("build_network") /\ Len(G.node) = 0) =>
              /\ ~Called("find_hub_genes")
              /\ pc \in {"stopped", "raised"}
        /\ pc \in {"rank", "figure", "png", "results", "done"} => Len(G.node) >= 1
        /\ Called("find_hub_genes") => Len(G.node) >= 1 /\ hub_genes # <<>>
        /\ Called("create_graph_figure") => Len(G.node) >= 1
        /\ ~Called(ShowsNoHubs)
        /\ pc = "done" => Called(ShowsHubs)

\* a handler run that went through all five steps and showed its hubs
C10_Witness ==
    /\ pc = "done"
    /\ SelectSeq(calls, IsStep)
         = <<"get_string_interactions", "build_network", "find_hub_genes",
             "create_graph_figure", ShowsHubs>>
    /\ hub_genes = <<"A", "B">>
====
